---- MODULE Spec2Model ----
(***************************************************************************)
(* Model of retriever/lib/templates.py: Script.download and the per-table  *)
(* pipeline of BasicTextTemplate.download with its helper methods.  The    *)
(* Engine is an external collaborator: the model records the operations    *)
(* the template invokes on it, with their parameters, in order.            *)
(***************************************************************************)
EXTENDS Integers, Sequences, FiniteSets, TLC

\* Largest number of entries of self.tables that is explored.
MaxTables == 2

(***************************************************************************)
(* Python objects.  An optional attribute is <<>> when the object does not *)
(* have it (hasattr is False) and <<v>> when it has it with value v.       *)
(***************************************************************************)
None == <<>>

Some(v) == <<v>>

hasattr(obj, a) == obj[a] # None

getattr(obj, a) == obj[a][1]

\* Python truth value of a string attribute ("" is falsy).
truthy(v) == v # ""

\* Engine.format_filename: the file name placed in the engine's data directory.
format_filename(name) == "raw_data/" \o name

(***************************************************************************)
(* Input domains.                                                          *)
(***************************************************************************)
TableUrl(i) == "http://tables/" \o ToString(i)

TablePath(i) == "table" \o ToString(i) \o ".csv"

SheetFile == "book.xlsx"

GeoFile == "map.geojson"

DatasetUrl == "http://dataset/data"

\* The table descriptors that may stand at position i of self.tables.
TableObjs(i) ==
    [url          : {None, Some(""), Some(TableUrl(i))},
     archived     : {None, Some("tar")},
     format       : {None, Some("tabular"), Some("geo")},
     dataset_type : {None, Some("RasterDataset"), Some("VectorDataset"),
                     Some("TabularDataset")},
     xls_sheets   : {None, Some(<<0, SheetFile>>)},
     geojson_data : {None, Some(GeoFile)},
     path         : {None, Some(TablePath(i))}]

\* table_obj before the loop binds it.
NoTable ==
    [url |-> None, archived |-> None, format |-> None, dataset_type |-> None,
     xls_sheets |-> None, geojson_data |-> None, path |-> None]

\* The dataset objects (self): Script.__init__ plus the keyword attributes
\* that BasicTextTemplate.__init__ sets.
Scripts ==
    [name         : {"dataset"},
     encoding     : {"utf-8"},
     url          : {None, Some(""), Some(DatasetUrl)},
     archived     : {None, Some("zip")},
     extract_all  : {None, Some(TRUE), Some(FALSE)},
     keep_in_dir  : {None},
     archive_name : {None}]

\* Engines as download sees them: a name and the optional capability flag.
Engines ==
    {[name |-> "postgres", spatial_support |-> Some(TRUE)],
     [name |-> "sqlite", spatial_support |-> Some(FALSE)],
     [name |-> "custom", spatial_support |-> None]}

\* What choose_engine({}) hands back when download gets no engine.
choose_engine == [name |-> "chosen", spatial_support |-> Some(FALSE)]

\* The engine argument of download: None or an engine.
EngineArgs == {None} \cup {Some(e) : e \in Engines}

(***************************************************************************)
(* Engine operations, as the records the model logs for them.              *)
(***************************************************************************)
download_files_from_archive(u, file_names, archive_type, keep_in_dir, archive_name) ==
    [op |-> "download_files_from_archive", url |-> u, file_names |-> file_names,
     archive_type |-> archive_type, keep_in_dir |-> keep_in_dir,
     archive_name |-> archive_name]

download_file(u, filename) ==
    [op |-> "download_file", url |-> u, filename |-> filename]

excel_to_csv(src_path, path_to_csv, excel_info, encoding) ==
    [op |-> "excel_to_csv", src_path |-> src_path, path_to_csv |-> path_to_csv,
     excel_info |-> excel_info, encoding |-> encoding]

process_geojson2csv(src_path, path_to_csv) ==
    [op |-> "process_geojson2csv", src_path |-> src_path,
     path_to_csv |-> path_to_csv]

\* filename is None when the keyword is not passed.
auto_create_table(t, u, filename) ==
    [op |-> "auto_create_table", table |-> t, url |-> u, filename |-> filename]

insert_raster(path) == [op |-> "insert_raster", path |-> path]

insert_vector(path) == [op |-> "insert_vector", path |-> path]

insert_data_from_file(filename) ==
    [op |-> "insert_data_from_file", filename |-> filename]

insert_data_from_url(u) == [op |-> "insert_data_from_url", url |-> u]

disconnect_files == [op |-> "disconnect_files"]

(***************************************************************************)
(* Control flow of a piece of the loop body: the Engine operations invoked *)
(* so far for the table, how the piece ended ("ok": fell through,          *)
(* "continue", "return", "raise"), the exception raised and the text       *)
(* printed.                                                                *)
(***************************************************************************)
Ok(cs) == [calls |-> cs, flow |-> "ok", exc |-> "none", out |-> <<>>]

Raise(cs, e) == [calls |-> cs, flow |-> "raise", exc |-> e, out |-> <<>>]

\* Faulty variant of process_archived_data: the dataset's archive type is
\* preferred to the table's.
process_archived_data_dataset_type_first(script, t, u, cs) ==
    LET archive_type ==
            IF hasattr(script, "archived") THEN getattr(script, "archived")
            ELSE IF hasattr(t, "archived") THEN getattr(t, "archived")
            ELSE "zip"
        files_by_extract_all ==
            IF hasattr(script, "extract_all")
            THEN (IF getattr(script, "extract_all") THEN None ELSE None)
            ELSE Some(<<getattr(t, "path")>>)
        files ==
            IF hasattr(t, "xls_sheets")
            THEN Some(<<getattr(t, "xls_sheets")[2]>>)
            ELSE files_by_extract_all
    IN  IF ~hasattr(script, "extract_all") /\ ~hasattr(t, "path")
        THEN Raise(cs, "AttributeError")
        ELSE Ok(Append(cs, download_files_from_archive(
                               u, files, archive_type,
                               IF hasattr(script, "keep_in_dir")
                               THEN getattr(script, "keep_in_dir") ELSE FALSE,
                               IF hasattr(script, "archive_name")
                               THEN Some(getattr(script, "archive_name"))
                               ELSE None)))

\* Faulty variant of process_archived_data: extract_all decides the file
\* list even when the table has xls_sheets.
process_archived_data_xls_not_forced(script, t, u, cs) ==
    LET archive_type ==
            IF hasattr(t, "archived") THEN getattr(t, "archived")
            ELSE IF hasattr(script, "archived") THEN getattr(script, "archived")
            ELSE "zip"
        files ==
            IF hasattr(script, "extract_all") THEN None
            ELSE IF hasattr(t, "xls_sheets")
            THEN Some(<<getattr(t, "xls_sheets")[2]>>)
            ELSE Some(<<getattr(t, "path")>>)
    IN  IF ~hasattr(script, "extract_all") /\ ~hasattr(t, "path")
        THEN Raise(cs, "AttributeError")
        ELSE Ok(Append(cs, download_files_from_archive(
                               u, files, archive_type,
                               IF hasattr(script, "keep_in_dir")
                               THEN getattr(script, "keep_in_dir") ELSE FALSE,
                               IF hasattr(script, "archive_name")
                               THEN Some(getattr(script, "archive_name"))
                               ELSE None)))

(***************************************************************************)
(* BasicTextTemplate.process_archived_data(table_obj, url)                 *)
(***************************************************************************)
process_archived_data(script, t, u, cs) ==
    LET archive_type ==
            IF hasattr(t, "archived") THEN getattr(t, "archived")
            ELSE IF hasattr(script, "archived") THEN getattr(script, "archived")
            ELSE "zip"
        files_by_extract_all ==
            IF hasattr(script, "extract_all")
            THEN (IF getattr(script, "extract_all") THEN None ELSE None)
            ELSE Some(<<getattr(t, "path")>>)
        files ==
            IF hasattr(t, "xls_sheets")
            THEN Some(<<getattr(t, "xls_sheets")[2]>>)
            ELSE files_by_extract_all
        keep_in_dir ==
            IF hasattr(script, "keep_in_dir") THEN getattr(script, "keep_in_dir")
            ELSE FALSE
        archive_name ==
            IF hasattr(script, "archive_name")
            THEN Some(getattr(script, "archive_name"))
            ELSE None
    IN  IF ~hasattr(script, "extract_all") /\ ~hasattr(t, "path")
        THEN Raise(cs, "AttributeError")
        ELSE Ok(Append(cs, download_files_from_archive(u, files, archive_type,
                                                       keep_in_dir, archive_name)))

(***************************************************************************)
(* BasicTextTemplate.process_tables(table_obj, url)                        *)
(***************************************************************************)
convert_xls_sheets(script, t, u, cs) ==
    IF hasattr(t, "xls_sheets")
    THEN IF ~hasattr(t, "path")
         THEN Raise(cs, "AttributeError")
         ELSE LET src_path == format_filename(getattr(t, "xls_sheets")[2])
                  path_to_csv == format_filename(getattr(t, "path"))
              IN  Ok(cs \o <<download_file(u, getattr(t, "xls_sheets")[2]),
                             excel_to_csv(src_path, path_to_csv,
                                          getattr(t, "xls_sheets"),
                                          script.encoding)>>)
    ELSE Ok(cs)

\* Faulty variant of convert_geojson_data: the file is converted before it
\* is downloaded.
convert_geojson_data_before_download(t, u, cs) ==
    IF hasattr(t, "geojson_data")
    THEN IF ~hasattr(t, "path")
         THEN Raise(cs, "AttributeError")
         ELSE LET src_path == format_filename(getattr(t, "geojson_data"))
                  path_to_csv == format_filename(getattr(t, "path"))
              IN  Ok(cs \o <<process_geojson2csv(src_path, path_to_csv),
                             download_file(u, getattr(t, "geojson_data"))>>)
    ELSE Ok(cs)

convert_geojson_data(t, u, cs) ==
    IF hasattr(t, "geojson_data")
    THEN IF ~hasattr(t, "path")
         THEN Raise(cs, "AttributeError")
         ELSE LET src_path == format_filename(getattr(t, "geojson_data"))
                  path_to_csv == format_filename(getattr(t, "path"))
              IN  Ok(cs \o <<download_file(u, getattr(t, "geojson_data")),
                             process_geojson2csv(src_path, path_to_csv)>>)
    ELSE Ok(cs)

\* Faulty variant of create_table: the table is always created from the url.
create_table_never_from_file(t, u, cs) ==
    Ok(Append(cs, auto_create_table(t, u, None)))

create_table(t, u, cs) ==
    IF hasattr(t, "path")
    THEN Ok(Append(cs, auto_create_table(t, u, Some(getattr(t, "path")))))
    ELSE Ok(Append(cs, auto_create_table(t, u, None)))

\* Faulty variant of process_tables: the table is created before the
\* conversions that produce its file.
process_tables_create_first(script, t, u, cs) ==
    LET made == create_table(t, u, cs)
        xls == convert_xls_sheets(script, t, u, made.calls)
        geo == convert_geojson_data(t, u, xls.calls)
    IN  IF xls.flow # "ok" THEN xls ELSE geo

\* Faulty variant of process_tables: the geo conversion is an elif of the
\* spreadsheet conversion.
process_tables_first_match(script, t, u, cs) ==
    LET conv == IF hasattr(t, "xls_sheets")
                THEN convert_xls_sheets(script, t, u, cs)
                ELSE convert_geojson_data(t, u, cs)
    IN  IF conv.flow # "ok" THEN conv ELSE create_table(t, u, conv.calls)

process_tables(script, t, u, cs) ==
    LET xls == convert_xls_sheets(script, t, u, cs)
        geo == convert_geojson_data(t, u, xls.calls)
    IN  IF xls.flow # "ok" THEN xls
        ELSE IF geo.flow # "ok" THEN geo
        ELSE create_table(t, u, geo.calls)

(***************************************************************************)
(* BasicTextTemplate.process_tabular_insert and process_spatial_insert     *)
(***************************************************************************)
process_tabular_insert(script, t, u, cs) ==
    IF hasattr(script, "archived") \/ hasattr(t, "path")
    THEN IF ~hasattr(t, "path")
         THEN Raise(cs, "AttributeError")
         ELSE Ok(Append(cs, insert_data_from_file(
                                format_filename(getattr(t, "path")))))
    ELSE Ok(Append(cs, insert_data_from_url(u)))

process_spatial_insert(t, cs) ==
    IF getattr(t, "dataset_type") = "RasterDataset"
    THEN IF ~hasattr(t, "path")
         THEN Raise(cs, "AttributeError")
         ELSE Ok(Append(cs, insert_raster(format_filename(getattr(t, "path")))))
    ELSE IF getattr(t, "dataset_type") = "VectorDataset"
    THEN IF ~hasattr(t, "path")
         THEN Raise(cs, "AttributeError")
         ELSE Ok(Append(cs, insert_vector(format_filename(getattr(t, "path")))))
    ELSE Ok(cs)

(***************************************************************************)
(* BasicTextTemplate.download: the pieces of the loop body, in source      *)
(* order.  u is the local variable url: None while unbound, and reading it *)
(* unbound raises UnboundLocalError.                                       *)
(***************************************************************************)

\* Faulty variant of resolve_url: the dataset's url is tried first.
resolve_url_default_first(script, t, u) ==
    IF ~hasattr(script, "url")
    THEN [url |-> u, assigned |-> FALSE, exc |-> "AttributeError"]
    ELSE IF truthy(getattr(script, "url"))
    THEN [url |-> Some(getattr(script, "url")), assigned |-> TRUE, exc |-> "none"]
    ELSE IF hasattr(t, "url") /\ truthy(getattr(t, "url"))
    THEN [url |-> Some(getattr(t, "url")), assigned |-> TRUE, exc |-> "none"]
    ELSE [url |-> u, assigned |-> FALSE, exc |-> "none"]

\* "if the table has no url, use the script's url": the value of url after
\* the if/elif, whether it was assigned, and the exception raised by
\* reading self.url when the dataset has no such attribute.
resolve_url(script, t, u) ==
    IF hasattr(t, "url") /\ truthy(getattr(t, "url"))
    THEN [url |-> Some(getattr(t, "url")), assigned |-> TRUE, exc |-> "none"]
    ELSE IF ~hasattr(script, "url")
    THEN [url |-> u, assigned |-> FALSE, exc |-> "AttributeError"]
    ELSE IF truthy(getattr(script, "url"))
    THEN [url |-> Some(getattr(script, "url")), assigned |-> TRUE, exc |-> "none"]
    ELSE [url |-> u, assigned |-> FALSE, exc |-> "none"]

\* Faulty variant of archive_stage: only the table's own archived counts.
archive_stage_table_only(script, t, u, cs) ==
    IF hasattr(t, "archived")
    THEN IF u = None
         THEN Raise(cs, "UnboundLocalError")
         ELSE process_archived_data(script, t, u[1], cs)
    ELSE Ok(cs)

\* "Extract archived files if a resource or the script has archived"
archive_stage(script, t, u, cs) ==
    IF hasattr(script, "archived") \/ hasattr(t, "archived")
    THEN IF u = None
         THEN Raise(cs, "UnboundLocalError")
         ELSE process_archived_data(script, t, u[1], cs)
    ELSE Ok(cs)

\* The text printed when the engine cannot process spatial data.
no_spatial_message(eng) ==
    "Engine " \o eng.name \o " does not support spatial processing"

\* Faulty variant of create_stage: the value of spatial_support is ignored.
create_stage_flag_ignored(script, eng, t, u, cs) ==
    IF (hasattr(t, "format") /\ getattr(t, "format") = "tabular")
           \/ hasattr(eng, "spatial_support")
    THEN IF u = None
         THEN Raise(cs, "UnboundLocalError")
         ELSE process_tables(script, t, u[1], cs)
    ELSE Ok(cs)

\* "Create tables"
create_stage(script, eng, t, u, cs) ==
    IF hasattr(t, "format") /\ getattr(t, "format") = "tabular"
    THEN IF u = None
         THEN Raise(cs, "UnboundLocalError")
         ELSE process_tables(script, t, u[1], cs)
    ELSE IF hasattr(eng, "spatial_support")
    THEN IF getattr(eng, "spatial_support")
         THEN IF u = None
              THEN Raise(cs, "UnboundLocalError")
              ELSE process_tables(script, t, u[1], cs)
         ELSE [calls |-> cs, flow |-> "return", exc |-> "none",
               out |-> <<no_spatial_message(eng)>>]
    ELSE Ok(cs)

\* Faulty variant of insert_stage: no continue after the spatial insert, so
\* the tabular insert follows it.
insert_stage_no_continue(script, t, u, cs) ==
    IF hasattr(t, "dataset_type")
    THEN LET spatial ==
                 IF getattr(t, "dataset_type") \in {"RasterDataset", "VectorDataset"}
                 THEN process_spatial_insert(t, cs)
                 ELSE Ok(cs)
         IN  IF spatial.flow # "ok" THEN spatial
             ELSE IF u = None THEN Raise(spatial.calls, "UnboundLocalError")
             ELSE LET tabular == process_tabular_insert(script, t, u[1], spatial.calls)
                  IN  IF tabular.flow = "ok"
                      THEN Ok(Append(tabular.calls, disconnect_files))
                      ELSE tabular
    ELSE Ok(Append(cs, disconnect_files))

\* "insert data procedures" and the disconnect_files that ends the body
insert_stage(script, t, u, cs) ==
    IF hasattr(t, "dataset_type")
    THEN IF getattr(t, "dataset_type") \in {"RasterDataset", "VectorDataset"}
         THEN LET spatial == process_spatial_insert(t, cs)
              IN  IF spatial.flow = "ok"
                  THEN [spatial EXCEPT !.flow = "continue"]
                  ELSE spatial
         ELSE IF u = None
         THEN Raise(cs, "UnboundLocalError")
         ELSE LET tabular == process_tabular_insert(script, t, u[1], cs)
              IN  IF tabular.flow = "ok"
                  THEN Ok(Append(tabular.calls, disconnect_files))
                  ELSE tabular
    ELSE Ok(Append(cs, disconnect_files))

\* One pass of the body of "for _, table_obj in self.tables.items()",
\* entered with url as the previous passes left it.
loop_body(script, eng, t, u0) ==
    LET res == resolve_url(script, t, u0)
        u == res.url
        archive == archive_stage(script, t, u, <<>>)
        create == create_stage(script, eng, t, u, archive.calls)
        insert == insert_stage(script, t, u, create.calls)
        ended == IF res.exc # "none" THEN Raise(<<>>, res.exc)
                 ELSE IF archive.flow # "ok" THEN archive
                 ELSE IF create.flow # "ok" THEN create
                 ELSE insert
    IN  [calls |-> ended.calls, flow |-> ended.flow, exc |-> ended.exc,
         out |-> ended.out, url |-> u, assigned |-> res.assigned]

(***************************************************************************)
(* Script.checkengine and Script.download                                  *)
(***************************************************************************)
\* Faulty variant of checkengine: the engine argument is ignored and
\* choose_engine always decides.
checkengine_ignores_argument(script, arg) ==
    [name |-> choose_engine.name,
     spatial_support |-> choose_engine.spatial_support,
     script |-> Some(script.name), debug |-> None, db_name |-> None]

\* The engine checkengine returns, bound to the script.
checkengine(script, arg) ==
    LET eng == IF arg = None THEN choose_engine ELSE arg[1]
    IN  [name |-> eng.name, spatial_support |-> eng.spatial_support,
         script |-> Some(script.name), debug |-> None, db_name |-> None]

\* The Engine operations checkengine invokes, in order.
checkengine_calls(arg) ==
    (IF arg = None THEN <<"choose_engine">> ELSE <<>>)
        \o <<"get_input", "set_engine_encoding">>

VARIABLES
    self,        \* the dataset object
    engine_arg,  \* the engine argument of download
    engine,      \* self.engine once Script.download has bound it, else None
    setup,       \* Engine operations invoked by Script.download, in order
    ntables,     \* len(self.tables)
    idx,         \* how many entries of self.tables the loop has taken
    table_obj,   \* the loop variable
    url,         \* the local variable url of download: None while unbound
    url_for,     \* the iteration that last assigned url (0: never assigned)
    calls,       \* Engine operations invoked for the current table, in order
    out,         \* what download has printed
    pc,          \* "init", "for", "body_done", "returned", "raised"
    flow,        \* how the last loop body ended: "ok", "continue", "return", "raise"
    exc          \* the exception that left download, "none" if none

vars == <<self, engine_arg, engine, setup, ntables, idx, table_obj, url,
          url_for, calls, out, pc, flow, exc>>

Init ==
    /\ self \in Scripts
    /\ engine_arg \in EngineArgs
    /\ engine = None
    /\ setup = <<>>
    /\ ntables \in 0..MaxTables
    /\ idx = 0
    /\ table_obj = NoTable
    /\ url = None
    /\ url_for = 0
    /\ calls = <<>>
    /\ out = <<>>
    /\ pc = "init"
    /\ flow = "ok"
    /\ exc = "none"

\* Script.download(self, engine, debug), called first by
\* BasicTextTemplate.download.
ScriptDownload ==
    /\ pc = "init"
    /\ \E debug \in {FALSE} :
          engine' = Some([checkengine(self, engine_arg) EXCEPT
                              !.debug = Some(debug),
                              !.db_name = Some(self.name)])
    /\ setup' = Append(checkengine_calls(engine_arg), "create_db")
    /\ pc' = "for"
    /\ UNCHANGED <<self, engine_arg, ntables, idx, table_obj, url, url_for,
                   calls, out, flow, exc>>

\* The for statement takes the next entry of self.tables and the body runs
\* on it, to its end or to the continue, return or exception that leaves it.
LoopBody ==
    /\ pc = "for"
    /\ idx < ntables
    /\ \E t \in TableObjs(idx + 1) :
          LET r == loop_body(self, engine[1], t, url)
          IN  /\ table_obj' = t
              /\ idx' = idx + 1
              /\ url' = r.url
              /\ url_for' = IF r.assigned THEN idx + 1 ELSE url_for
              /\ calls' = r.calls
              /\ out' = out \o r.out
              /\ flow' = r.flow
              /\ exc' = r.exc
              /\ pc' = CASE r.flow = "return" -> "returned"
                         [] r.flow = "raise" -> "raised"
                         [] OTHER -> "body_done"
    /\ UNCHANGED <<self, engine_arg, engine, setup, ntables>>

\* Faulty variant of ForNext: an exception raised in the body is swallowed
\* and the loop goes on with the next table.
ForNext_swallows_exception ==
    /\ pc \in {"body_done", "raised"}
    /\ pc' = "for"
    /\ table_obj' = NoTable
    /\ calls' = <<>>
    /\ UNCHANGED <<self, engine_arg, engine, setup, ntables, idx, url,
                   url_for, out, flow, exc>>

\* Control is back at the for statement: the operations logged for the
\* table just finished are set aside.
ForNext ==
    /\ pc = "body_done"
    /\ pc' = "for"
    /\ table_obj' = NoTable
    /\ calls' = <<>>
    /\ UNCHANGED <<self, engine_arg, engine, setup, ntables, idx, url,
                   url_for, out, flow, exc>>

\* self.tables is exhausted: download returns.
LoopExit ==
    /\ pc = "for"
    /\ idx = ntables
    /\ pc' = "returned"
    /\ flow' = "end"
    /\ UNCHANGED <<self, engine_arg, engine, setup, ntables, idx, table_obj,
                   url, url_for, calls, out, exc>>

Next == ScriptDownload \/ LoopBody \/ ForNext \/ LoopExit

Spec == Init /\ [][Next]_vars

(***************************************************************************)
(* Vocabulary of the properties.                                           *)
(***************************************************************************)
\* The loop body has run on table_obj and calls holds what it invoked.
InBody == pc \in {"body_done", "raised"} \/ (pc = "returned" /\ flow = "return")

\* The body ran to its end or to its continue.
Completed == pc = "body_done"

\* download returned from inside the body, at the capability check.
Aborted == pc = "returned" /\ flow = "return"

OpNames(cs) == [k \in 1..Len(cs) |-> cs[k].op]

Count(cs, names) == Cardinality({k \in 1..Len(cs) : cs[k].op \in names})

TabularInserts == {"insert_data_from_file", "insert_data_from_url"}

SpatialInserts == {"insert_raster", "insert_vector"}

Conversions == {"excel_to_csv", "process_geojson2csv"}

\* The Engine operations that take the source URL.
UrlOps == {"download_files_from_archive", "download_file", "auto_create_table",
           "insert_data_from_url"}

HasOwnUrl(t) == t.url # None /\ t.url[1] # ""

HasDefaultUrl(script) == script.url # None /\ script.url[1] # ""

NotTabularFormat(t) == t.format # Some("tabular")

NoSpatialSupport(eng) == eng.spatial_support = Some(FALSE)

IsArchived(script, t) == script.archived # None \/ t.archived # None

IsSpatial(t) ==
    t.dataset_type \in {Some("RasterDataset"), Some("VectorDataset")}

\* C1 (as claimed): a capability-abort ends the work on that table only, so
\* when download has returned the loop has taken every entry of self.tables.
C1_AbortSkipsOnlyThatTable == pc = "returned" => idx = ntables

\* C2 (as claimed): a table without dataset_type whose pass completes gets
\* exactly one tabular insert, after its auto_create_table.
C2_NoDatasetTypeInsertsTabular ==
    (Completed /\ table_obj.dataset_type = None)
        => /\ Count(calls, TabularInserts) = 1
           /\ \E k \in 1..Len(calls) : \E j \in 1..(k - 1) :
                 /\ calls[k].op \in TabularInserts
                 /\ calls[j].op = "auto_create_table"

C4_CleanupOncePerCompletedTable ==
    Completed
        => /\ Count(calls, {"disconnect_files"}) = 1
           /\ calls[Len(calls)].op = "disconnect_files"

\* C5 (as claimed): a table without a non-empty url in a dataset without a
\* default URL fails before any Engine operation is invoked for it.
C5_NoUrlFailsBeforeEngine ==
    (InBody /\ ~HasOwnUrl(table_obj) /\ ~HasDefaultUrl(self))
        => /\ pc = "raised"
           /\ calls = <<>>

\* C6: every Engine operation of a table with a non-empty url receives that
\* url; every Engine operation of a table without one, in a dataset with a
\* default URL, receives the default.
C6_UrlPrecedence ==
    InBody
        => \A k \in 1..Len(calls) :
              calls[k].op \in UrlOps
                  => /\ HasOwnUrl(table_obj) => calls[k].url = table_obj.url[1]
                     /\ (~HasOwnUrl(table_obj) /\ HasDefaultUrl(self))
                            => calls[k].url = self.url[1]

\* C6 witness: a table with its own url in a dataset that has a default, for
\* which several URL-taking operations were invoked.
C6_Witness ==
    /\ Completed
    /\ HasOwnUrl(table_obj)
    /\ HasDefaultUrl(self)
    /\ Count(calls, UrlOps) >= 3
    /\ \A k \in 1..Len(calls) :
          calls[k].op \in UrlOps => calls[k].url = TableUrl(idx)

\* C7 (as claimed): at a capability-abort no Engine operation has been
\* invoked for the table.
C7_NothingInvokedBeforeAbort == Aborted => calls = <<>>

\* C7 (amended): at a capability-abort the only Engine operation invoked for
\* the table is the archive extraction, which ran exactly when the table or
\* the dataset declares archived; nothing else ran and no disconnect_files.
C7_OnlyArchiveBeforeAbort ==
    Aborted
        => IF IsArchived(self, table_obj)
           THEN OpNames(calls) = <<"download_files_from_archive">>
           ELSE calls = <<>>

\* C7 witness: an archived table is capability-aborted after its extraction.
C7_Witness ==
    /\ Aborted
    /\ table_obj.archived # None
    /\ OpNames(calls) = <<"download_files_from_archive">>

\* C8: for a table whose format is not "tabular" on an Engine whose
\* spatial_support is false, no auto_create_table and no insert operation is
\* invoked, and unless an exception ended the pass first, the text naming
\* the Engine is printed.
C8_AbortedTableNotCreatedNorInserted ==
    (InBody /\ NotTabularFormat(table_obj) /\ NoSpatialSupport(engine[1]))
        => /\ Count(calls, {"auto_create_table"} \cup TabularInserts
                               \cup SpatialInserts) = 0
           /\ pc # "raised"
                 => out = <<"Engine " \o engine[1].name
                                \o " does not support spatial processing">>

\* C8 witness: a raster table with a path meets an Engine without spatial
\* support and the text is printed.
C8_Witness ==
    /\ Aborted
    /\ table_obj.dataset_type = Some("RasterDataset")
    /\ table_obj.path # None
    /\ engine[1].spatial_support = Some(FALSE)
    /\ Len(out) = 1

\* C9: a RasterDataset or VectorDataset table never gets a tabular insert;
\* when its pass completes, the matching spatial insert was invoked once,
\* last, with the table's path; with spatial_support true, a path, no
\* archive and no conversion the operations are auto_create_table then the
\* spatial insert.
C9_SpatialExcludesTabular ==
    (InBody /\ IsSpatial(table_obj))
        => /\ Count(calls, TabularInserts) = 0
           /\ Completed
                 => /\ Count(calls, SpatialInserts) = 1
                    /\ calls[Len(calls)] =
                          IF table_obj.dataset_type = Some("RasterDataset")
                          THEN insert_raster(format_filename(table_obj.path[1]))
                          ELSE insert_vector(format_filename(table_obj.path[1]))
           /\ (/\ Completed
               /\ engine[1].spatial_support = Some(TRUE)
               /\ ~IsArchived(self, table_obj)
               /\ table_obj.xls_sheets = None
               /\ table_obj.geojson_data = None)
                 => OpNames(calls) =
                       <<"auto_create_table",
                         IF table_obj.dataset_type = Some("RasterDataset")
                         THEN "insert_raster" ELSE "insert_vector">>

\* C9 witness: a vector table with a path, not archived, on an Engine with
\* spatial support: created, then inserted with insert_vector.
C9_Witness ==
    /\ Completed
    /\ table_obj.dataset_type = Some("VectorDataset")
    /\ table_obj.format = None
    /\ engine[1].spatial_support = Some(TRUE)
    /\ OpNames(calls) = <<"auto_create_table", "insert_vector">>
    /\ calls[2].path = format_filename(TablePath(idx))

\* The stage an Engine operation belongs to, in the order of the pipeline.
StageOf(name) ==
    CASE name = "download_files_from_archive" -> 1
      [] name \in {"download_file", "excel_to_csv", "process_geojson2csv"} -> 2
      [] name = "auto_create_table" -> 3
      [] name \in TabularInserts \cup SpatialInserts -> 4
      [] name = "disconnect_files" -> 5

StagesInOrder(cs) ==
    \A j, k \in 1..Len(cs) : j < k => StageOf(cs[j].op) <= StageOf(cs[k].op)

\* C10: within a table the operations come in the order archive, conversion,
\* creation, insertion, cleanup, each of archive, creation, insertion and
\* cleanup at most once; and operations are invoked for a table only when
\* the pass over the preceding table is over, the tables being taken one by
\* one in the order of self.tables.
C10_StageAndTableOrder ==
    /\ [](/\ StagesInOrder(calls)
          /\ \A st \in {1, 3, 4, 5} :
                Cardinality({k \in 1..Len(calls) : StageOf(calls[k].op) = st}) <= 1)
    /\ [][(calls' # calls /\ calls' # <<>>)
             => (pc = "for" /\ calls = <<>> /\ idx' = idx + 1)]_vars
    /\ [][idx' # idx => (idx' = idx + 1 /\ pc = "for")]_vars

\* C10 witness: all five stages ran for one table, the second of the run.
C10_Witness ==
    /\ Completed
    /\ idx = 2
    /\ {StageOf(calls[k].op) : k \in 1..Len(calls)} = 1..5


\* C11 (as claimed): the tabular insert of a table is insert_data_from_file
\* on the table's path exactly when the table is archived (by its own or the
\* dataset's archived) or has a path, and insert_data_from_url of the url
\* otherwise.
C11_FileInsertIffArchivedOrPath ==
    InBody
        => \A k \in 1..Len(calls) :
              calls[k].op \in TabularInserts
                  => IF IsArchived(self, table_obj) \/ table_obj.path # None
                     THEN calls[k].op = "insert_data_from_file"
                     ELSE calls[k] = insert_data_from_url(url[1])


\* C12: download_files_from_archive is invoked at most once per table and
\* only for a table that is archived by its own or the dataset's archived;
\* when invoked it is the table's first Engine operation and its archive_type
\* is the table's archived if the table has one, else the dataset's; for an
\* archived table it is missing only when an exception ended the pass before
\* any Engine operation.
C12_ArchiveStageActivationAndType ==
    InBody
        => /\ Count(calls, {"download_files_from_archive"}) <= 1
           /\ ~IsArchived(self, table_obj)
                 => Count(calls, {"download_files_from_archive"}) = 0
           /\ IsArchived(self, table_obj)
                 => \/ /\ calls # <<>>
                       /\ calls[1].op = "download_files_from_archive"
                       /\ calls[1].archive_type =
                             IF table_obj.archived # None
                             THEN table_obj.archived[1]
                             ELSE self.archived[1]
                    \/ (pc = "raised" /\ calls = <<>>)

\* C12 witness: a table with its own archived, in a dataset that declares
\* another archive type, is extracted with the table's type and then
\* created.
C12_Witness ==
    /\ Completed
    /\ table_obj.archived = Some("tar")
    /\ self.archived = Some("zip")
    /\ Len(calls) >= 2
    /\ calls[1].op = "download_files_from_archive"
    /\ calls[1].archive_type = "tar"
    /\ calls[2].op = "auto_create_table"

\* C13: whenever an archive is extracted for a table with xls_sheets, the
\* file list passed is the one spreadsheet file xls_sheets[1], whatever the
\* table's path and the dataset's extract_all.
C13_SpreadsheetFileForcedInArchive ==
    InBody
        => \A k \in 1..Len(calls) :
              (calls[k].op = "download_files_from_archive"
                   /\ table_obj.xls_sheets # None)
                  => calls[k].file_names = Some(<<table_obj.xls_sheets[1][2]>>)

\* C13 witness: the dataset asks to extract all, the table has a path and
\* xls_sheets, and the archive is extracted for the spreadsheet file alone.
C13_Witness ==
    /\ InBody
    /\ self.extract_all = Some(TRUE)
    /\ table_obj.xls_sheets # None
    /\ table_obj.path # None
    /\ calls # <<>>
    /\ calls[1].op = "download_files_from_archive"
    /\ calls[1].file_names = Some(<<SheetFile>>)


\* The table-creation stage applies to the table: process_tables is called.
CreationApplies(eng, t) ==
    t.format = Some("tabular") \/ eng.spatial_support = Some(TRUE)

\* C14: auto_create_table is invoked at most once per table, and once for
\* every table that completes a pass in which the creation stage applies;
\* it gets the table and the url, with filename the table's path if the
\* table has a path and no filename otherwise.
C14_TableCreationDispatch ==
    InBody
        => /\ Count(calls, {"auto_create_table"}) <= 1
           /\ (Completed /\ CreationApplies(engine[1], table_obj))
                 => Count(calls, {"auto_create_table"}) = 1
           /\ \A k \in 1..Len(calls) :
                 calls[k].op = "auto_create_table"
                     => /\ calls[k].table = table_obj
                        /\ calls[k].url = url[1]
                        /\ calls[k].filename =
                              IF table_obj.path # None
                              THEN Some(table_obj.path[1])
                              ELSE None

\* C14 witness: in one run a table with a path is created from the file.
C14_Witness ==
    /\ Completed
    /\ table_obj.path # None
    /\ Count(calls, {"auto_create_table"}) = 1
    /\ \E k \in 1..Len(calls) :
          /\ calls[k].op = "auto_create_table"
          /\ calls[k].filename = Some(TablePath(idx))
          /\ calls[k].url = DatasetUrl

\* C17 (as claimed): for an archived table without xls_sheets the file list
\* is None (extract all) exactly when the dataset's extract_all is true, and
\* otherwise the one file [table path].
C17_ExtractAllOnlyWhenTrue ==
    InBody
        => \A k \in 1..Len(calls) :
              (calls[k].op = "download_files_from_archive"
                   /\ table_obj.xls_sheets = None)
                  => IF self.extract_all = Some(TRUE)
                     THEN calls[k].file_names = None
                     ELSE /\ table_obj.path # None
                          /\ calls[k].file_names = Some(<<table_obj.path[1]>>)

\* C18: every conversion of a table comes right after a download_file of
\* its source file from the url of the pass, reads that file and writes the
\* table's path, excel_to_csv with the sheet selector and the dataset's
\* encoding; and it comes before the table's auto_create_table.
C18_DownloadThenConvert ==
    InBody
        => \A k \in 1..Len(calls) :
              calls[k].op \in Conversions
                  => LET source == IF calls[k].op = "excel_to_csv"
                                   THEN table_obj.xls_sheets[1][2]
                                   ELSE table_obj.geojson_data[1]
                     IN  /\ k >= 2
                         /\ calls[k - 1] = download_file(url[1], source)
                         /\ calls[k].src_path = format_filename(source)
                         /\ calls[k].path_to_csv =
                               format_filename(table_obj.path[1])
                         /\ calls[k].op = "excel_to_csv"
                               => /\ calls[k].encoding = self.encoding
                                  /\ calls[k].excel_info = table_obj.xls_sheets[1]
                         /\ \A j \in 1..Len(calls) :
                               calls[j].op = "auto_create_table" => k < j

\* C18 witness: a geo table is downloaded, converted, then created.
C18_Witness ==
    /\ Completed
    /\ table_obj.geojson_data # None
    /\ table_obj.xls_sheets = None
    /\ \E k \in 1..Len(calls) :
          /\ calls[k].op = "download_file"
          /\ calls[k + 1].op = "process_geojson2csv"
          /\ calls[k + 2].op = "auto_create_table"

\* C19 (as claimed): an insert operation is invoked for a table only after
\* auto_create_table was invoked for that table.
C19_NoInsertWithoutCreate ==
    InBody
        => \A k \in 1..Len(calls) :
              calls[k].op \in TabularInserts \cup SpatialInserts
                  => \E j \in 1..(k - 1) : calls[j].op = "auto_create_table"


\* C16 (as claimed): what a pass invokes for a table and how it ends depend
\* only on the table, the dataset and the Engine: they are what the same
\* pass gives as the first of a run, with nothing left by earlier tables.
C16_PassIndependentOfEarlierTables ==
    InBody
        => LET fresh == loop_body(self, engine[1], table_obj, None)
           IN  /\ calls = fresh.calls
               /\ flow = fresh.flow
               /\ exc = fresh.exc


\* C20: once Script.download is over the Engine is the supplied one, or the
\* one of choose_engine when none was supplied, bound to the dataset
\* (script, db_name) after get_input and set_engine_encoding, and create_db
\* has been invoked exactly once, last; no Engine operation is invoked for a
\* table before that, and the Engine and its preparation never change
\* afterwards.
C20_EnginePreparedBeforeTables ==
    /\ [](pc = "init" => (calls = <<>> /\ setup = <<>> /\ idx = 0))
    /\ [](pc # "init"
            => /\ setup = (IF engine_arg = None THEN <<"choose_engine">> ELSE <<>>)
                              \o <<"get_input", "set_engine_encoding", "create_db">>
               /\ LET given == IF engine_arg = None THEN choose_engine
                               ELSE engine_arg[1]
                  IN  /\ engine[1].name = given.name
                      /\ engine[1].spatial_support = given.spatial_support
               /\ engine[1].script = Some(self.name)
               /\ engine[1].db_name = Some(self.name))
    /\ [][pc # "init" => (engine' = engine /\ setup' = setup)]_vars

\* C20 witness: a supplied Engine with spatial support has been prepared
\* and a table has been created and inserted on it.
C20_Witness ==
    /\ Completed
    /\ engine_arg # None
    /\ engine[1].name = "postgres"
    /\ setup = <<"get_input", "set_engine_encoding", "create_db">>
    /\ Count(calls, {"auto_create_table"}) = 1
    /\ Count(calls, SpatialInserts) = 1


(***************************************************************************)
(* The Engine may fail.  download has no try/except and uses no result of  *)
(* an Engine operation (format_filename aside), so a failing operation     *)
(* raises through download after the operations that precede it.           *)
(***************************************************************************)
\* An Engine operation of Script.download raises.  self.engine is assigned
\* only when checkengine has returned.
ScriptDownloadEngineFails ==
    /\ pc = "init"
    /\ LET ops == Append(checkengine_calls(engine_arg), "create_db")
       IN  \E k \in 1..Len(ops) :
              /\ setup' = SubSeq(ops, 1, k)
              /\ engine' = IF k = Len(ops)
                           THEN Some([checkengine(self, engine_arg) EXCEPT
                                          !.debug = Some(FALSE),
                                          !.db_name = Some(self.name)])
                           ELSE None
    /\ pc' = "raised"
    /\ flow' = "raise"
    /\ exc' = "CollaboratorError"
    /\ UNCHANGED <<self, engine_arg, ntables, idx, table_obj, url, url_for,
                   calls, out>>

\* The k-th Engine operation of the pass over the next table raises.
LoopBodyEngineFails ==
    /\ pc = "for"
    /\ idx < ntables
    /\ \E t \in TableObjs(idx + 1) :
          LET r == loop_body(self, engine[1], t, url)
          IN  \E k \in 1..Len(r.calls) :
                 /\ table_obj' = t
                 /\ idx' = idx + 1
                 /\ url' = r.url
                 /\ url_for' = IF r.assigned THEN idx + 1 ELSE url_for
                 /\ calls' = SubSeq(r.calls, 1, k)
    /\ pc' = "raised"
    /\ flow' = "raise"
    /\ exc' = "CollaboratorError"
    /\ UNCHANGED <<self, engine_arg, engine, setup, ntables, out>>

\* The runs with a failing Engine are explored on datasets of MaxTables
\* tables that declare no extract_all.
InitFail ==
    /\ Init
    /\ ntables = MaxTables
    /\ self.extract_all = None

NextFail == Next \/ ScriptDownloadEngineFails \/ LoopBodyEngineFails

SpecFail == InitFail /\ [][NextFail]_vars

\* C15: no Engine operation is invoked twice with the same parameters for a
\* table; a failure of an Engine operation leaves download as an exception;
\* after an exception nothing more happens, so no stage of the current table
\* follows, nothing is retried and no earlier table is taken again; and the
\* loop never goes back to an earlier table.
C15_NoRetryFailurePropagates ==
    /\ [](\A j, k \in 1..Len(calls) : j # k => calls[j] # calls[k])
    /\ [](exc # "none" <=> pc = "raised")
    /\ [][pc = "raised" => UNCHANGED vars]_vars
    /\ [][idx' >= idx /\ Len(setup') >= Len(setup)]_vars

\* C15 witness: the third Engine operation of the second table has failed.
C15_Witness ==
    /\ pc = "raised"
    /\ exc = "CollaboratorError"
    /\ idx = 2
    /\ Len(calls) = 3
    /\ calls[3].op = "auto_create_table"

====
